---- MODULE Spec2Model ----
(***************************************************************************)
(* The request handler of POST /api/generate-openapi of text-to-openapi,   *)
(* in its two versions: the free-text repair pipeline (src/src/index.ts)   *)
(* and the main-agent pipeline with the full evaluation loop               *)
(* (src/unnamed/part_001), with the tool functions they call.              *)
(*                                                                         *)
(* A request is a record of the handler's locals.  Every action is one     *)
(* segment of the handler between two awaits, or one round of a            *)
(* tool-augmented model session the handler is awaiting.  The language     *)
(* model, the search, scrape and OpenAPI-parser services are the           *)
(* environment: their answers are drawn from the small sets below.         *)
(***************************************************************************)
EXTENDS Integers, Sequences, FiniteSets, TLC

----------------------------------------------------------------------------
(* Bounds of the model *)

\* longest operations list the decomposition call returns
MaxOps == 2

----------------------------------------------------------------------------
(* Texts.  A text is a sequence of characters of a small alphabet:         *)
(*   "{" "}"  braces                                                        *)
(*   "o"      an object member that makes the object a valid OpenAPI        *)
(*            document (stands for "openapi", "info" and "paths")           *)
(*   "k"      any other object member                                       *)
(*   "n"      a JSON literal that is not an object (a number, a string)     *)
(*   "x"      prose                                                         *)
(*   "E"      the prefix ERROR:                                             *)
(*   " "      white space                                                   *)

Chars == {"{", "}", "o", "k", "n", "x", "E", " "}

\* null, for a string | null local
NullText == <<"null">>

RECURSIVE TrimLeft(_)
TrimLeft(t) ==
    IF t # <<>> /\ Head(t) = " " THEN TrimLeft(Tail(t)) ELSE t

RECURSIVE TrimRight(_)
TrimRight(t) ==
    IF t # <<>> /\ t[Len(t)] = " " THEN TrimRight(SubSeq(t, 1, Len(t) - 1)) ELSE t

\* String.prototype.trim
Trim(t) == TrimRight(TrimLeft(t))

\* String.prototype.startsWith('ERROR:')
StartsWithError(t) == t # <<>> /\ Head(t) = "E"

\* rawOutput.match(/\{[\s\S]*\}/): the leftmost "{" and, the quantifier being
\* greedy, the last "}" after it; null when there is none
RegexMatch(t) ==
    LET opens  == {i \in 1..Len(t) : t[i] = "{"}
        first  == CHOOSE i \in opens : \A j \in opens : i <= j
        closes == {j \in 1..Len(t) : t[j] = "}" /\ j > first}
        last   == CHOOSE j \in closes : \A l \in closes : l <= j
    IN  IF opens = {} THEN NullText
        ELSE IF closes = {} THEN NullText
        ELSE SubSeq(t, first, last)

\* white space between JSON tokens is insignificant
RECURSIVE Squeeze(_)
Squeeze(t) ==
    IF t = <<>> THEN <<>>
    ELSE IF Head(t) = " " THEN Squeeze(Tail(t))
    ELSE <<Head(t)>> \o Squeeze(Tail(t))

\* JSON values
JsonError  == [type |-> "error",  keys |-> {}]
JsonNumber == [type |-> "number", keys |-> {}]
JsonObject(ks) == [type |-> "object", keys |-> ks]
NoSpec     == [type |-> "none", keys |-> {}]

\* JSON.parse; JsonError stands for the SyntaxError it throws
JSONparse(t) ==
    LET q == Squeeze(t)
        n == Len(q)
    IN  IF q = <<"n">> THEN JsonNumber
        ELSE IF n >= 2 /\ q[1] = "{" /\ q[n] = "}"
                /\ \A i \in 2..(n - 1) : q[i] \in {"o", "k"}
        THEN JsonObject({q[i] : i \in 2..(n - 1)})
        ELSE JsonError

----------------------------------------------------------------------------
(* The tool functions *)

\* SwaggerParser.validate: resolves for a valid OpenAPI document, rejects otherwise
SwaggerParserValidate(v) == "o" \in v.keys

\* validateOpenAPISchema(oasJsonString)
validateOpenAPISchema(t) ==
    LET parsedSchema == JSONparse(t)
    IN  IF parsedSchema.type # "object"
        THEN [isValid |-> FALSE, error |-> "Input string is not valid JSON."]
        ELSE IF SwaggerParserValidate(parsedSchema)
        THEN [isValid |-> TRUE, error |-> "null"]
        ELSE [isValid |-> FALSE, error |-> "OAS validation failed: "]

----------------------------------------------------------------------------
(* Values of the handler *)

\* the tools of the agentTools registry
agentTools ==
    {"search_api_documentation", "read_webpage_content", "validate_openapi_schema",
     "evaluate_alignment", "evaluate_veracity"}

\* Step 3b: { validate_openapi_schema: agentTools.validate_openapi_schema }
\* validationTool, were Step 3b given every tool
validationTool_AllTools == agentTools

validationTool == {"validate_openapi_schema"}

\* maxSteps of the information gathering session
MaxStepsInfo == 5

\* maxSteps of the iterative validation session
MaxStepsValidation == 10

\* maxToolRoundtrips of the main agent
MaxToolRoundtrips == 10

\* the score the main agent's prompt asks the alignment to reach, in tenths
AlignmentThreshold == 48

\* the attempts the main agent's prompt allows before it must answer ERROR:
MaxAttempts == 4

\* the tools evaluateVeracity gives its own session
veracityTools == {"search_docs", "read_page"}

\* the options of the generateText calls that are given tools: the tools, and
\* the option that caps the rounds of the session with its value
generateTextOptions(session) ==
    CASE session = "gather"   ->
            [tools |-> agentTools, cap |-> "maxSteps", rounds |-> MaxStepsInfo]
      [] session = "synth"    ->
            [tools |-> validationTool, cap |-> "maxSteps", rounds |-> MaxStepsValidation]
      [] session = "agent"    ->
            [tools |-> agentTools, cap |-> "maxToolRoundtrips", rounds |-> MaxToolRoundtrips]
      [] session = "veracity" ->
            [tools |-> veracityTools, cap |-> "none", rounds |-> 0]

\* the environment variables the code reads
EnvKeys == {"GEMINI_API_KEY", "SERPAPI_API_KEY", "FIRECRAWL_API_KEY"}

\* operation descriptions the decomposition may name
Ops == {"opA", "opB"}
NoOp == "-"

\* decompositionResult.object.operations when the property is missing
Undefined == <<"undefined">>

\* a const or let of the handler that no statement has reached yet
Unassigned == <<"unassigned">>

\* req.body.query: absent, "", 0, 42, or a non-empty string
QueryValues == {"undefined", "emptyString", "zero", "number", "string"}

\* !query
Falsy(q) == q \in {"undefined", "emptyString", "zero"}

\* typeof query
Typeof(q) ==
    IF q \in {"emptyString", "string"} THEN "string"
    ELSE IF q = "undefined" THEN "undefined"
    ELSE "number"

NoDetails == [prefix |-> "", msg |-> "", text |-> NullText]
Details(prefix, msg, text) == [prefix |-> prefix, msg |-> msg, text |-> text]

\* a response body: the keys it has and their values
Body(keys, error, operation, details, spec) ==
    [keys |-> keys, error |-> error, operation |-> operation,
     details |-> details, spec |-> spec]

\* {}
EmptyBody == Body({}, "", NoOp, NoDetails, NoSpec)

\* { error }
ErrorBody(error) == Body({"error"}, error, NoOp, NoDetails, NoSpec)

NoResponse == [status |-> 0, body |-> EmptyBody]
NoError == [operation |-> NoOp, error |-> NoDetails]
NoVerdict == [arg |-> NullText, isValid |-> FALSE, error |-> "none"]

\* no read_webpage_content call yet
NoPage ==
    [scrape |-> [throws |-> FALSE, success |-> "none", content |-> "none",
                 markdown |-> "none", html |-> "none"],
     value |-> "none"]

\* a generateText session with tools, when it starts: the model generations
\* made, the texts the validator has accepted, what the last call of each check
\* returned, the evaluator outputs the last evaluate_alignment and
\* evaluate_veracity calls read, and the checks that failed
NewSession ==
    [steps |-> 0, validated |-> {},
     lastVerdict |-> NoVerdict, lastScore |-> -1, lastVeracity |-> "none",
     alignmentOut |-> NullText, veracityOut |-> "none", failedChecks |-> 0,
     page |-> NoPage]

\* an outbound model call: the stage that makes it and what its prompt holds
Call(stage, op, info) == [stage |-> stage, op |-> op, info |-> info]

\* what a model session or a model call gives back: a text, or an exception
Resolved(text) == [throws |-> FALSE, text |-> text, msg |-> ""]
Rejected(msg) == [throws |-> TRUE, text |-> NullText, msg |-> msg]

\* a call that has not settled
Pending == [throws |-> FALSE, text |-> NullText, msg |-> "pending"]

\* the handler's locals, before its first statement
NewRequest(q) ==
    [pc |-> "start", query |-> q,
     intentOutput |-> "none",
     requestedOperations |-> Unassigned, operation |-> NoOp,
     infoAgentResult |-> Pending, validationAgentResult |-> Pending,
     agentResult |-> Pending,
     gatheredInformation |-> NullText, generatedOASString |-> NullText,
     processingError |-> NoError,
     response |-> NoResponse, sent |-> 0,
     calls |-> <<>>, session |-> NewSession,
     cancelled |-> FALSE]

\* the caller of the request has gone: express emits 'close' on req, for which
\* the handler registers no listener, and no AbortSignal is given to any call
ClientGone(s) == [s EXCEPT !.cancelled = TRUE]

\* a request that never arrives
IdleRequest == [NewRequest("undefined") EXCEPT !.pc = "idle"]

\* res.status(status).json(body); return
Respond(s, status, body) ==
    [s EXCEPT !.pc = "done", !.sent = @ + 1,
              !.response = [status |-> status, body |-> body]]

----------------------------------------------------------------------------
(* src/src/index.ts: the handler, one operator per segment between awaits *)

\* OuterCatch, were it to log the exception and send nothing
OuterCatch_NoResponse(s) == [s EXCEPT !.pc = "done"]

\* OuterCatch, answering with a caller error
OuterCatch_CallerError(s) ==
    Respond(s, 400, ErrorBody("Internal Server Error during API processing."))

\* the outer catch
OuterCatch(s) ==
    Respond(s, 500, ErrorBody("Internal Server Error during API processing."))

\* the query check, then the intent check's generateObject call
HandlerStart(s) ==
    IF Falsy(s.query) \/ Typeof(s.query) # "string"
    THEN Respond(s, 400, ErrorBody("Missing or invalid 'query' in request body"))
    ELSE [s EXCEPT !.pc = "intent",
                   !.calls = Append(@, Call("intent", NoOp, NullText))]

\* generateObject with intentSchema: the object when the model's output is of
\* z.enum(['yes', 'no']), an exception otherwise
generateObjectIntent(out) ==
    IF out \in {"yes", "no"} THEN Resolved(out)
    ELSE IF out = "APICallError" THEN Rejected("APICallError")
    ELSE Rejected("NoObjectGeneratedError")

\* IntentCheck without the early return of a request that is not for a spec
IntentCheck_NoEarlyReturn(s, out) ==
    LET intentResult == generateObjectIntent(out)
        t == [s EXCEPT !.intentOutput = out]
    IN  IF intentResult.throws THEN OuterCatch(t)
        ELSE [t EXCEPT !.pc = "decompose",
                       !.calls = Append(@, Call("decompose", NoOp, NullText))]

\* Step 1 after its await, then Step 2's generateObject call
IntentCheck(s, out) ==
    LET intentResult == generateObjectIntent(out)
        t == [s EXCEPT !.intentOutput = out]
    IN  IF intentResult.throws THEN OuterCatch(t)
        ELSE IF intentResult.text # "yes" THEN Respond(t, 200, EmptyBody)
        ELSE [t EXCEPT !.pc = "decompose",
                       !.calls = Append(@, Call("decompose", NoOp, NullText))]

\* Decompose, asking the model again when it names no operation
Decompose_Retry(s, result) ==
    IF result.throws THEN OuterCatch(s)
    ELSE LET requestedOperations == result.text
             t == [s EXCEPT !.requestedOperations = requestedOperations]
         IN  IF requestedOperations = Undefined \/ Len(requestedOperations) = 0
             THEN [t EXCEPT !.calls = Append(@, Call("decompose", NoOp, NullText))]
             ELSE LET operation == requestedOperations[1]
                  IN  [t EXCEPT !.pc = "gather",
                                !.operation = operation,
                                !.session = NewSession,
                                !.calls = Append(@, Call("gather", operation, NullText))]

\* Decompose, going on with the last operation named
Decompose_LastOperation(s, result) ==
    IF result.throws THEN OuterCatch(s)
    ELSE LET requestedOperations == result.text
             t == [s EXCEPT !.requestedOperations = requestedOperations]
         IN  IF requestedOperations = Undefined \/ Len(requestedOperations) = 0
             THEN Respond(t, 400, ErrorBody(
                    "Could not understand the specific API operations requested in the query."))
             ELSE LET operation == requestedOperations[Len(requestedOperations)]
                  IN  [t EXCEPT !.pc = "gather",
                                !.operation = operation,
                                !.session = NewSession,
                                !.calls = Append(@, Call("gather", operation, NullText))]

\* Step 2 after its await, then Step 3a's generateText call
Decompose(s, result) ==
    IF result.throws THEN OuterCatch(s)
    ELSE LET requestedOperations == result.text
             t == [s EXCEPT !.requestedOperations = requestedOperations]
         IN  IF requestedOperations = Undefined \/ Len(requestedOperations) = 0
             THEN Respond(t, 400, ErrorBody(
                    "Could not understand the specific API operations requested in the query."))
             ELSE LET operation == requestedOperations[1]
                  IN  [t EXCEPT !.pc = "gather",
                                !.operation = operation,
                                !.session = NewSession,
                                !.calls = Append(@, Call("gather", operation, NullText))]

\* Step 4
ReturnResult(s) ==
    IF s.generatedOASString # NullText /\ s.generatedOASString # <<>>
    THEN LET finalSpec == JSONparse(s.generatedOASString)
         IN  IF finalSpec = JsonError THEN OuterCatch(s)
             ELSE Respond(s, 200, Body({"generated_spec"}, "", NoOp, NoDetails, finalSpec))
    ELSE IF s.processingError # NoError
    THEN Respond(s, 500,
            Body({"error", "details"},
                 "Failed to generate OpenAPI specification for operation: ",
                 s.processingError.operation, s.processingError.error, NoSpec))
    ELSE Respond(s, 500, ErrorBody("An unexpected error occurred during processing."))

\* InfoGathering without the trim of the session's text
InfoGathering_NoTrim(s, infoAgentResult) ==
    LET text    == IF infoAgentResult.throws THEN NullText ELSE infoAgentResult.text
        failure == IF infoAgentResult.throws THEN infoAgentResult.msg
                   ELSE IF text = <<>>
                   THEN "Agent failed to produce a text summary in Step 3a."
                   ELSE ""
    IN  IF failure # ""
        THEN ReturnResult(
               [s EXCEPT !.infoAgentResult = infoAgentResult,
                         !.processingError =
                             [operation |-> s.operation,
                              error |-> Details("Information Gathering Failed: ",
                                                failure, NullText)],
                         !.gatheredInformation = NullText])
        ELSE [s EXCEPT !.pc = "synth",
                       !.infoAgentResult = infoAgentResult,
                       !.gatheredInformation = text,
                       !.session = NewSession,
                       !.calls = Append(@, Call("synth", NoOp, text))]

\* InfoGathering, were an empty summary not thrown as an error of Step 3a
InfoGathering_EmptyNotRecorded(s, infoAgentResult) ==
    LET text == IF infoAgentResult.throws THEN NullText ELSE Trim(infoAgentResult.text)
    IN  IF infoAgentResult.throws
        THEN ReturnResult(
               [s EXCEPT !.infoAgentResult = infoAgentResult,
                         !.processingError =
                             [operation |-> s.operation,
                              error |-> Details("Information Gathering Failed: ",
                                                infoAgentResult.msg, NullText)],
                         !.gatheredInformation = NullText])
        ELSE IF text = <<>>
        THEN ReturnResult([s EXCEPT !.infoAgentResult = infoAgentResult,
                                    !.gatheredInformation = text])
        ELSE [s EXCEPT !.pc = "synth",
                       !.infoAgentResult = infoAgentResult,
                       !.gatheredInformation = text,
                       !.session = NewSession,
                       !.calls = Append(@, Call("synth", NoOp, text))]

\* InfoGathering, were Step 3b to run whatever Step 3a gave
InfoGathering_SynthesisAnyway(s, infoAgentResult) ==
    LET text    == IF infoAgentResult.throws THEN NullText ELSE Trim(infoAgentResult.text)
        failure == IF infoAgentResult.throws THEN infoAgentResult.msg
                   ELSE IF text = <<>>
                   THEN "Agent failed to produce a text summary in Step 3a."
                   ELSE ""
        t == IF failure # ""
             THEN [s EXCEPT !.processingError =
                                [operation |-> s.operation,
                                 error |-> Details("Information Gathering Failed: ",
                                                   failure, NullText)],
                            !.gatheredInformation = NullText]
             ELSE [s EXCEPT !.gatheredInformation = text]
    IN  [t EXCEPT !.pc = "synth",
                  !.infoAgentResult = infoAgentResult,
                  !.session = NewSession,
                  !.calls = Append(@, Call("synth", NoOp, text))]

\* Step 3a after its await; then Step 3b's generateText call, or Step 4
InfoGathering(s, infoAgentResult) ==
    LET text    == IF infoAgentResult.throws THEN NullText ELSE Trim(infoAgentResult.text)
        failure == IF infoAgentResult.throws THEN infoAgentResult.msg
                   ELSE IF text = <<>>
                   THEN "Agent failed to produce a text summary in Step 3a."
                   ELSE ""
    IN  IF failure # ""
        THEN ReturnResult(
               [s EXCEPT !.infoAgentResult = infoAgentResult,
                         !.processingError =
                             [operation |-> s.operation,
                              error |-> Details("Information Gathering Failed: ",
                                                failure, NullText)],
                         !.gatheredInformation = NullText])
        ELSE [s EXCEPT !.pc = "synth",
                       !.infoAgentResult = infoAgentResult,
                       !.gatheredInformation = text,
                       !.session = NewSession,
                       !.calls = Append(@, Call("synth", NoOp, text))]

\* IterativeValidation, were Step 4 handed the session's whole output and not
\* the block extracted from it
IterativeValidation_KeepsRawOutput(s, validationAgentResult) ==
    LET rawOutput  == IF validationAgentResult.throws THEN NullText
                      ELSE Trim(validationAgentResult.text)
        jsonString == IF validationAgentResult.throws THEN NullText
                      ELSE RegexMatch(rawOutput)
        parsedOAS  == JSONparse(jsonString)
        failure ==
            IF validationAgentResult.throws
            THEN Details("Iterative Generation & Validation Failed: ",
                         validationAgentResult.msg, NullText)
            ELSE IF jsonString = NullText
            THEN Details("Iterative Generation & Validation Failed: ",
                         "Agent output did not contain a recognizable JSON block. Output: ",
                         rawOutput)
            ELSE IF parsedOAS = JsonError
            THEN Details("Iterative Generation & Validation Failed: ",
                         "Final extracted block was not valid JSON. Extracted: ",
                         jsonString)
            ELSE IF parsedOAS.type # "object" \/ Cardinality(parsedOAS.keys) = 0
            THEN Details("Iterative Generation & Validation Failed: ",
                         "Iterative generation resulted in an empty JSON object '{}'.",
                         NullText)
            ELSE NoDetails
        t == [s EXCEPT !.validationAgentResult = validationAgentResult]
    IN  IF failure # NoDetails
        THEN ReturnResult([t EXCEPT !.processingError =
                                        [operation |-> s.operation, error |-> failure]])
        ELSE ReturnResult([t EXCEPT !.generatedOASString = rawOutput])

\* IterativeValidation without the check that the parsed object is not empty
IterativeValidation_NoEmptyCheck(s, validationAgentResult) ==
    LET rawOutput  == IF validationAgentResult.throws THEN NullText
                      ELSE Trim(validationAgentResult.text)
        jsonString == IF validationAgentResult.throws THEN NullText
                      ELSE RegexMatch(rawOutput)
        parsedOAS  == JSONparse(jsonString)
        failure ==
            IF validationAgentResult.throws
            THEN Details("Iterative Generation & Validation Failed: ",
                         validationAgentResult.msg, NullText)
            ELSE IF jsonString = NullText
            THEN Details("Iterative Generation & Validation Failed: ",
                         "Agent output did not contain a recognizable JSON block. Output: ",
                         rawOutput)
            ELSE IF parsedOAS = JsonError
            THEN Details("Iterative Generation & Validation Failed: ",
                         "Final extracted block was not valid JSON. Extracted: ",
                         jsonString)
            ELSE NoDetails
        t == [s EXCEPT !.validationAgentResult = validationAgentResult]
    IN  IF failure # NoDetails
        THEN ReturnResult([t EXCEPT !.processingError =
                                        [operation |-> s.operation, error |-> failure]])
        ELSE ReturnResult([t EXCEPT !.generatedOASString = jsonString])

\* Step 3b after its await: extraction, parse, the non-empty check; then Step 4
IterativeValidation(s, validationAgentResult) ==
    LET rawOutput  == IF validationAgentResult.throws THEN NullText
                      ELSE Trim(validationAgentResult.text)
        jsonString == IF validationAgentResult.throws THEN NullText
                      ELSE RegexMatch(rawOutput)
        parsedOAS  == JSONparse(jsonString)
        failure ==
            IF validationAgentResult.throws
            THEN Details("Iterative Generation & Validation Failed: ",
                         validationAgentResult.msg, NullText)
            ELSE IF jsonString = NullText
            THEN Details("Iterative Generation & Validation Failed: ",
                         "Agent output did not contain a recognizable JSON block. Output: ",
                         rawOutput)
            ELSE IF parsedOAS = JsonError
            THEN Details("Iterative Generation & Validation Failed: ",
                         "Final extracted block was not valid JSON. Extracted: ",
                         jsonString)
            ELSE IF parsedOAS.type # "object" \/ Cardinality(parsedOAS.keys) = 0
            THEN Details("Iterative Generation & Validation Failed: ",
                         "Iterative generation resulted in an empty JSON object '{}'.",
                         NullText)
            ELSE NoDetails
        t == [s EXCEPT !.validationAgentResult = validationAgentResult]
    IN  IF failure # NoDetails
        THEN ReturnResult([t EXCEPT !.processingError =
                                        [operation |-> s.operation, error |-> failure]])
        ELSE ReturnResult([t EXCEPT !.generatedOASString = jsonString])

----------------------------------------------------------------------------
(* The other tool functions.  A tool's result is a value or an exception. *)

Returned(value) == [throws |-> FALSE, msg |-> "", value |-> value]
Thrown(msg) == [throws |-> TRUE, msg |-> msg, value |-> "none"]

\* searchApiDocumentation(query); service is what SerpAPI does
searchApiDocumentation(env, service) ==
    IF "SERPAPI_API_KEY" \notin env
    THEN Thrown("SERPAPI_API_KEY environment variable is not set.")
    ELSE IF service = "fail" THEN Thrown("SerpAPI search failed: ")
    ELSE Returned("urls")

\* what app.scrapeUrl gives: an exception, or an object with some of success,
\* error, data.content, markdown and html ("absent" for a property it lacks)
ScrapeResult(success, content, markdown, html) ==
    [throws |-> FALSE, success |-> success, content |-> content,
     markdown |-> markdown, html |-> html]
ScrapeThrows ==
    [throws |-> TRUE, success |-> "absent", content |-> "absent",
     markdown |-> "absent", html |-> "absent"]

\* readWebpageContent(url) of src/src/tools; scrapeResult is what Firecrawl does
readWebpageContent(env, scrapeResult) ==
    IF "FIRECRAWL_API_KEY" \notin env
    THEN Thrown("FIRECRAWL_API_KEY environment variable is not set.")
    ELSE IF scrapeResult.throws THEN Thrown("Firecrawl scraping failed for ")
    ELSE LET content == scrapeResult.content
         IN  IF scrapeResult.success = "false" \/ content = "absent"
             THEN Thrown("Firecrawl scraping failed for : Failed to scrape URL or no content found. Error: ")
             ELSE Returned(content)

\* readWebpageContent(url) in its other version (part_003): markdown, or html
readWebpageContentMarkdown(env, scrapeData) ==
    IF "FIRECRAWL_API_KEY" \notin env
    THEN Thrown("Configuration error: FIRECRAWL_API_KEY environment variable is not set.")
    ELSE IF scrapeData.throws THEN Thrown("Firecrawl processing failed for ")
    ELSE IF scrapeData.markdown # "absent" THEN Returned(scrapeData.markdown)
    ELSE IF scrapeData.html # "absent" THEN Returned(scrapeData.html)
    ELSE Thrown("Firecrawl processing failed for : Firecrawl scrape for returned unexpected data structure.")

\* the number literals of the evaluator outputs below, in tenths
NumberLiterals == {"4.7", "4.8", "5.1"}
Tenths(lit) == CASE lit = "4.7" -> 47 [] lit = "4.8" -> 48 [] lit = "5.1" -> 51

\* NaN
NaN == -1

\* parseFloat(text.trim()): the number the text starts with, whatever follows it
parseFloat(out) ==
    LET t == Trim(out)
    IN  IF t # <<>> /\ Head(t) \in NumberLiterals THEN Tenths(Head(t)) ELSE NaN

\* evaluateAlignment(userQuery, generatedOAS); out is the evaluator model's text
evaluateAlignment(env, out) ==
    IF "GEMINI_API_KEY" \notin env
    THEN Thrown("GEMINI_API_KEY environment variable is not set for alignment evaluation.")
    ELSE IF out = <<"APICallError">> THEN Thrown("Alignment evaluation failed: APICallError")
    ELSE LET score == parseFloat(out)
         IN  IF score = NaN \/ score < 0 \/ score > 50
             THEN Thrown("Alignment evaluation failed: Alignment evaluator returned an invalid score: ")
             ELSE Returned(score)

\* text.trim().toLowerCase(), on the model outputs of the intent check and of
\* the veracity evaluator
TrimToLowerCase(out) ==
    CASE out = "Yes "   -> "yes"
      [] out = " TRUE"  -> "true"
      [] out = "False " -> "false"
      [] OTHER          -> out

\* evaluateVeracity, taking an output it cannot read for 'false'
evaluateVeracity_DefaultFalse(env, out) ==
    IF "GEMINI_API_KEY" \notin env
    THEN Thrown("GEMINI_API_KEY environment variable is not set for veracity evaluation.")
    ELSE IF out = "APICallError" THEN Thrown("Veracity evaluation failed: APICallError")
    ELSE Returned(TrimToLowerCase(out) = "true")

\* evaluateVeracity(generatedOAS, sourceUrl); out is the evaluator model's text
evaluateVeracity(env, out) ==
    IF "GEMINI_API_KEY" \notin env
    THEN Thrown("GEMINI_API_KEY environment variable is not set for veracity evaluation.")
    ELSE IF out = "APICallError" THEN Thrown("Veracity evaluation failed: APICallError")
    ELSE LET result == TrimToLowerCase(out)
         IN  IF result # "true" /\ result # "false"
             THEN Thrown("Veracity evaluation failed: Veracity evaluator returned an invalid response: ")
             ELSE Returned(result = "true")

\* execute, were the validator to throw its failure and not return it
execute_ValidatorThrows(tool, env, x) ==
    CASE tool = "search_api_documentation" -> searchApiDocumentation(env, x)
      [] tool = "read_webpage_content"     -> readWebpageContent(env, x)
      [] tool = "validate_openapi_schema"  ->
            IF validateOpenAPISchema(x).isValid THEN Returned(validateOpenAPISchema(x))
            ELSE Thrown(validateOpenAPISchema(x).error)
      [] tool = "evaluate_alignment"       -> evaluateAlignment(env, x)
      [] tool = "evaluate_veracity"        -> evaluateVeracity(env, x)

\* the execute callback of the tool of that name; x is the argument the model
\* passes (validate_openapi_schema) or what the tool's service answers
execute(tool, env, x) ==
    CASE tool = "search_api_documentation" -> searchApiDocumentation(env, x)
      [] tool = "read_webpage_content"     -> readWebpageContent(env, x)
      [] tool = "validate_openapi_schema"  -> Returned(validateOpenAPISchema(x))
      [] tool = "evaluate_alignment"       -> evaluateAlignment(env, x)
      [] tool = "evaluate_veracity"        -> evaluateVeracity(env, x)

\* the execute callbacks in the build whose readWebpageContent is the other
\* version; the model runs the handler of part_001 with it
executeMain(tool, env, x) ==
    IF tool = "read_webpage_content" THEN readWebpageContentMarkdown(env, x)
    ELSE execute(tool, env, x)

\* what a read_webpage_content call was given by Firecrawl and what it did
Page(scrapeResult, result) ==
    [scrape |-> scrapeResult,
     value |-> IF result.throws THEN "throws" ELSE result.value]

\* a tool round of a generateText session whose tool returned
\* ToolRound, were the validator to keep its last failure between calls
ToolRound_RememberInvalid(s, tool, x, result) ==
    LET last == s.session.lastVerdict
        failedBefore == last.error \notin {"none", "null"}
    IN  [s EXCEPT !.session.steps = @ + 1,
                  !.session.validated = IF tool = "validate_openapi_schema"
                                           /\ result.value.isValid /\ ~failedBefore
                                        THEN @ \cup {x} ELSE @,
                  !.session.lastVerdict =
                      IF tool # "validate_openapi_schema" THEN @
                      ELSE IF failedBefore
                           THEN [arg |-> x, isValid |-> FALSE, error |-> last.error]
                           ELSE [arg |-> x, isValid |-> result.value.isValid,
                                 error |-> result.value.error]]

\* a tool round of a generateText session whose tool returned: the session
\* keeps what the tool was given and what it answered
ToolRound(s, tool, x, result) ==
    [s EXCEPT !.session.steps = @ + 1,
              !.session.page = IF tool = "read_webpage_content"
                               THEN Page(x, result) ELSE @,
              !.session.validated = IF tool = "validate_openapi_schema"
                                       /\ result.value.isValid
                                    THEN @ \cup {x} ELSE @,
              !.session.lastVerdict = IF tool = "validate_openapi_schema"
                                      THEN [arg |-> x, isValid |-> result.value.isValid,
                                            error |-> result.value.error]
                                      ELSE @,
              !.session.lastScore = IF tool = "evaluate_alignment"
                                    THEN result.value ELSE @,
              !.session.alignmentOut = IF tool = "evaluate_alignment" THEN x ELSE @,
              !.session.veracityOut = IF tool = "evaluate_veracity" THEN x ELSE @,
              !.session.lastVeracity = IF tool = "evaluate_veracity"
                                       THEN (IF result.value THEN "true" ELSE "false")
                                       ELSE @]

\* a tool round of a generateText session whose tool threw
ToolThrew(s, tool, x, result) ==
    [s EXCEPT !.session.steps = @ + 1,
              !.session.page = IF tool = "read_webpage_content"
                               THEN Page(x, result) ELSE @,
              !.session.alignmentOut = IF tool = "evaluate_alignment" THEN x ELSE @,
              !.session.veracityOut = IF tool = "evaluate_veracity" THEN x ELSE @]

\* Step 3a's session: one round with a tool call; an exception of the tool
\* rejects the session, which the catch of Step 3a handles
InfoGatheringRound(s, tool, x, env) ==
    LET result == execute(tool, env, x)
    IN  IF result.throws
        THEN InfoGathering(ToolThrew(s, tool, x, result), Rejected(result.msg))
        ELSE ToolRound(s, tool, x, result)

\* Step 3b's session: one round with a tool call
IterativeValidationRound(s, tool, x, env) ==
    LET result == execute(tool, env, x)
    IN  IF result.throws
        THEN IterativeValidation(ToolThrew(s, tool, x, result), Rejected(result.msg))
        ELSE ToolRound(s, tool, x, result)

----------------------------------------------------------------------------
(* src/unnamed/part_001: the handler with the main agent *)

\* MainOuterCatch, answering with the message of the exception
MainOuterCatch_Details(s) ==
    Respond(s, 500,
        Body({"error", "details"}, "Internal Server Error during OAS generation.",
             NoOp, Details("", s.agentResult.msg, NullText), NoSpec))

\* the outer catch
MainOuterCatch(s) ==
    Respond(s, 500, ErrorBody("Internal Server Error during OAS generation."))

\* res.status(200).json(finalOAS): the body is the parsed value itself
BareBody(finalOAS) ==
    IF finalOAS = JsonObject({}) THEN EmptyBody
    ELSE Body(finalOAS.keys, "", NoOp, NoDetails, finalOAS)

\* MainStart with the GEMINI_API_KEY check made first
MainStart_KeyCheckFirst(s, env) ==
    IF "GEMINI_API_KEY" \notin env
    THEN Respond(s, 500, ErrorBody("Server configuration error."))
    ELSE IF Falsy(s.query) \/ Typeof(s.query) # "string"
    THEN Respond(s, 400, ErrorBody("Missing or invalid 'query' in request body"))
    ELSE [s EXCEPT !.pc = "intent",
                   !.calls = Append(@, Call("intent", NoOp, NullText))]

\* the query check, the GEMINI_API_KEY check, then the intent check's call
MainStart(s, env) ==
    IF Falsy(s.query) \/ Typeof(s.query) # "string"
    THEN Respond(s, 400, ErrorBody("Missing or invalid 'query' in request body"))
    ELSE IF "GEMINI_API_KEY" \notin env
    THEN Respond(s, 500, ErrorBody("Server configuration error."))
    ELSE [s EXCEPT !.pc = "intent",
                   !.calls = Append(@, Call("intent", NoOp, NullText))]

\* Step 1 after its await, then the main agent's generateText call
MainIntentCheck(s, out) ==
    IF out = "APICallError" THEN MainOuterCatch([s EXCEPT !.intentOutput = out])
    ELSE IF TrimToLowerCase(out) # "yes"
    THEN Respond([s EXCEPT !.intentOutput = out], 200, EmptyBody)
    ELSE [s EXCEPT !.pc = "agent",
                   !.intentOutput = out,
                   !.session = NewSession,
                   !.calls = Append(@, Call("agent", NoOp, NullText))]

\* Step 4 after the main agent's await
MainAgent(s, agentResult) ==
    IF agentResult.throws THEN MainOuterCatch([s EXCEPT !.agentResult = agentResult])
    ELSE LET finalText == Trim(agentResult.text)
             finalOAS  == JSONparse(finalText)
             t == [s EXCEPT !.agentResult = agentResult]
         IN  IF StartsWithError(finalText)
             THEN Respond(t, 500,
                    Body({"error", "details"},
                         "Failed to generate OpenAPI specification after multiple attempts.",
                         NoOp, Details("", "", finalText), NoSpec))
             ELSE IF finalOAS # JsonError
             THEN Respond(t, 200, BareBody(finalOAS))
             ELSE Respond(t, 500,
                    Body({"error", "details"},
                         "Agent produced invalid final JSON output.",
                         NoOp, Details("", "", finalText), NoSpec))

\* a check of the main agent's process whose result asks for a revision: the
\* schema invalid, the alignment below 4.8, or the veracity false
CheckFailed(tool, result) ==
    CASE tool = "validate_openapi_schema" -> ~result.value.isValid
      [] tool = "evaluate_alignment"      -> result.value < AlignmentThreshold
      [] tool = "evaluate_veracity"       -> ~result.value
      [] OTHER                            -> FALSE

\* the main agent's session: one round with a tool call; an exception of the
\* tool rejects the session, which the outer catch handles
MainAgentRound(s, tool, x, env) ==
    LET result == executeMain(tool, env, x)
    IN  IF result.throws
        THEN MainAgent(ToolThrew(s, tool, x, result), Rejected(result.msg))
        ELSE [ToolRound(s, tool, x, result) EXCEPT
                !.session.failedChecks =
                    IF CheckFailed(tool, result) /\ @ <= MaxAttempts THEN @ + 1 ELSE @]

----------------------------------------------------------------------------
(* What the environment may answer *)

\* the model's output on the intent prompt, or the provider failing
IntentOutputs == {"yes", "no", "maybe", "Yes ", "APICallError"}

OpLists == UNION {[1..n -> Ops] : n \in 0..MaxOps}

\* what the decomposition's generateObject gives back
DecompositionResults ==
    {Resolved(ops) : ops \in OpLists \cup {Undefined}} \cup {Rejected("APICallError")}

\* final texts of the information gathering session
GatherTexts == {<<>>, <<" ">>, <<" ", "x">>}

\* final texts of the iterative validation session
SynthTexts ==
    {<<"{", "o", "}">>, <<"{", "k", "}">>, <<"{", "}">>, <<>>, <<"x">>,
     <<" ", "{", "o", "}">>, <<"{", "o", "}", "x", "}">>, <<"x", "{", "k">>,
     <<"x", "{", "o", "}">>}

\* final texts of the main agent
AgentTexts ==
    {<<"{", "o", "}">>, <<"{", "k", "}">>, <<"{", "}">>, <<>>, <<"x">>,
     <<"n">>, <<"E", "x">>, <<" ", "{", "o", "}">>}

\* what Firecrawl answers: a page with data.content, markdown and html; one
\* with markdown and html only; one with html only; one that could not be
\* scraped; an exception
ScrapeResults ==
    {ScrapeResult("true", "content", "markdown", "html"),
     ScrapeResult("true", "absent", "markdown", "html"),
     ScrapeResult("true", "absent", "absent", "html"),
     ScrapeResult("false", "absent", "absent", "absent"),
     ScrapeThrows}

\* what a tool call is made with, or what its service answers
ToolInputs(tool) ==
    CASE tool = "search_api_documentation" -> {"ok", "fail"}
      [] tool = "read_webpage_content"     -> ScrapeResults
      [] tool = "validate_openapi_schema"  ->
            {<<"{", "o", "}">>, <<"{", "k", "}">>, <<"n">>, <<"x">>}
      [] tool = "evaluate_alignment"       ->
            {<<"4.7">>, <<"4.8">>, <<"5.1">>, <<"x">>, <<"4.8", "x">>, <<"APICallError">>}
      [] tool = "evaluate_veracity"        ->
            {"true", "false", " TRUE", "maybe", "APICallError"}

SessionResults(texts) == {Resolved(t) : t \in texts} \cup {Rejected("APICallError")}

\* the environment variables that are set: all, or none
Envs == {EnvKeys, {}}

----------------------------------------------------------------------------
(* The state *)

VARIABLES
    variant,    \* which version of the handler the server runs
    env,        \* process.env: the variables that are set
    reqs        \* the locals of each request

vars == <<variant, env, reqs>>

ReqIds == {1, 2}

\* Step, were operation a variable of the module and not of the handler
Step_SharedOperation(r, new) ==
    /\ reqs' = [o \in ReqIds |->
                    IF o = r THEN new
                    ELSE [reqs[o] EXCEPT !.operation = new.operation]]
    /\ UNCHANGED <<variant, env>>

\* one request's handler runs from one await to the next: it writes its own
\* locals; agentTools, the only value of the module it uses, is never written
Step(r, new) ==
    /\ reqs' = [reqs EXCEPT ![r] = new]
    /\ UNCHANGED <<variant, env>>

Init ==
    /\ variant \in {"index", "part_001"}
    /\ env \in Envs
    /\ \E q \in QueryValues : reqs = [r \in ReqIds |-> IF r = 1 THEN NewRequest(q) ELSE IdleRequest]

\* index.ts
Start(r) ==
    /\ variant = "index" /\ reqs[r].pc = "start"
    /\ Step(r, HandlerStart(reqs[r]))

IntentDone(r) ==
    /\ variant = "index" /\ reqs[r].pc = "intent"
    /\ \E out \in IntentOutputs : Step(r, IntentCheck(reqs[r], out))

DecomposeDone(r) ==
    /\ variant = "index" /\ reqs[r].pc = "decompose"
    /\ \E result \in DecompositionResults : Step(r, Decompose(reqs[r], result))

GatherRound(r) ==
    /\ variant = "index" /\ reqs[r].pc = "gather"
    /\ reqs[r].session.steps < MaxStepsInfo
    /\ \E tool \in agentTools : \E x \in ToolInputs(tool) :
          Step(r, InfoGatheringRound(reqs[r], tool, x, env))

GatherDone(r) ==
    /\ variant = "index" /\ reqs[r].pc = "gather"
    /\ \E result \in SessionResults(GatherTexts) : Step(r, InfoGathering(reqs[r], result))

SynthRound(r) ==
    /\ variant = "index" /\ reqs[r].pc = "synth"
    /\ reqs[r].session.steps < MaxStepsValidation
    /\ \E tool \in validationTool : \E x \in ToolInputs(tool) :
          Step(r, IterativeValidationRound(reqs[r], tool, x, env))

SynthDone(r) ==
    /\ variant = "index" /\ reqs[r].pc = "synth"
    /\ \E result \in SessionResults(SynthTexts) :
          Step(r, IterativeValidation(reqs[r], result))

\* part_001
StartMain(r) ==
    /\ variant = "part_001" /\ reqs[r].pc = "start"
    /\ Step(r, MainStart(reqs[r], env))

IntentDoneMain(r) ==
    /\ variant = "part_001" /\ reqs[r].pc = "intent"
    /\ \E out \in IntentOutputs : Step(r, MainIntentCheck(reqs[r], out))

AgentRound(r) ==
    /\ variant = "part_001" /\ reqs[r].pc = "agent"
    /\ reqs[r].session.steps < MaxToolRoundtrips + 1
    /\ \E tool \in agentTools : \E x \in ToolInputs(tool) :
          Step(r, MainAgentRound(reqs[r], tool, x, env))

AgentDone(r) ==
    /\ variant = "part_001" /\ reqs[r].pc = "agent"
    /\ \E result \in SessionResults(AgentTexts) : Step(r, MainAgent(reqs[r], result))

Next ==
    \E r \in ReqIds :
        \/ Start(r)
        \/ IntentDone(r)
        \/ DecomposeDone(r)
        \/ GatherRound(r)
        \/ GatherDone(r)
        \/ SynthRound(r)
        \/ SynthDone(r)
        \/ StartMain(r)
        \/ IntentDoneMain(r)
        \/ AgentRound(r)
        \/ AgentDone(r)

Spec == Init /\ [][Next]_vars

\* the tool calls of the sessions when what is asked is whether the handler
\* answers: a search that returns or throws, and the validator on one text
LiveToolInputs(tool) ==
    CASE tool = "search_api_documentation" -> {"ok", "fail"}
      [] tool = "validate_openapi_schema"  -> {<<"{", "o", "}">>}
      [] OTHER                             -> {}

LiveGatherRound(r) ==
    /\ variant = "index" /\ reqs[r].pc = "gather"
    /\ reqs[r].session.steps < MaxStepsInfo
    /\ \E tool \in agentTools : \E x \in LiveToolInputs(tool) :
          Step(r, InfoGatheringRound(reqs[r], tool, x, env))

LiveSynthRound(r) ==
    /\ variant = "index" /\ reqs[r].pc = "synth"
    /\ reqs[r].session.steps < MaxStepsValidation
    /\ \E tool \in validationTool : \E x \in LiveToolInputs(tool) :
          Step(r, IterativeValidationRound(reqs[r], tool, x, env))

LiveAgentRound(r) ==
    /\ variant = "part_001" /\ reqs[r].pc = "agent"
    /\ reqs[r].session.steps < MaxToolRoundtrips + 1
    /\ \E tool \in agentTools : \E x \in LiveToolInputs(tool) :
          Step(r, MainAgentRound(reqs[r], tool, x, env))

NextLive ==
    \E r \in ReqIds :
        \/ Start(r)
        \/ IntentDone(r)
        \/ DecomposeDone(r)
        \/ LiveGatherRound(r)
        \/ GatherDone(r)
        \/ LiveSynthRound(r)
        \/ SynthDone(r)
        \/ StartMain(r)
        \/ IntentDoneMain(r)
        \/ LiveAgentRound(r)
        \/ AgentDone(r)

\* every outbound call settles: the handler that awaits one is resumed, and a
\* request received is handled.  A session's tool rounds need no fairness:
\* the await of the session is what resumes the handler.
CallsSettle ==
    \A r \in ReqIds :
        /\ WF_vars(Start(r)) /\ WF_vars(StartMain(r))
        /\ WF_vars(IntentDone(r)) /\ WF_vars(IntentDoneMain(r))
        /\ WF_vars(DecomposeDone(r))
        /\ WF_vars(GatherDone(r))
        /\ WF_vars(SynthDone(r))
        /\ WF_vars(AgentDone(r))

SpecLive == Init /\ [][NextLive]_vars /\ CallsSettle

----------------------------------------------------------------------------
(* Two requests of index.ts side by side: the collaborators give both the   *)
(* same answers, but for the decomposition, whose two operations lists      *)
(* agree on their first element only.                                       *)

AllAt(pc) == variant = "index" /\ \A r \in ReqIds : reqs[r].pc = pc

Both(new1, new2) ==
    /\ reqs' = [r \in ReqIds |-> IF r = 1 THEN new1 ELSE new2]
    /\ UNCHANGED <<variant, env>>

\* two decomposition results that agree on operations[0]
SameFirstOperation(res1, res2) ==
    IF res1.throws \/ res2.throws THEN res1 = res2
    ELSE IF res1.text \in {<<>>, Undefined} \/ res2.text \in {<<>>, Undefined}
    THEN res1 = res2
    ELSE res1.text[1] = res2.text[1]

InitPair ==
    /\ variant = "index"
    /\ env \in Envs
    /\ \E q \in QueryValues : reqs = [r \in ReqIds |-> NewRequest(q)]

PairStart ==
    /\ AllAt("start")
    /\ Both(HandlerStart(reqs[1]), HandlerStart(reqs[2]))

PairIntentDone ==
    /\ AllAt("intent")
    /\ \E out \in IntentOutputs :
          Both(IntentCheck(reqs[1], out), IntentCheck(reqs[2], out))

PairDecomposeDone ==
    /\ AllAt("decompose")
    /\ \E res1 \in DecompositionResults : \E res2 \in DecompositionResults :
          /\ SameFirstOperation(res1, res2)
          /\ Both(Decompose(reqs[1], res1), Decompose(reqs[2], res2))

PairGatherRound ==
    /\ AllAt("gather")
    /\ \A r \in ReqIds : reqs[r].session.steps < MaxStepsInfo
    /\ \E tool \in agentTools : \E x \in ToolInputs(tool) :
          Both(InfoGatheringRound(reqs[1], tool, x, env),
               InfoGatheringRound(reqs[2], tool, x, env))

PairGatherDone ==
    /\ AllAt("gather")
    /\ \E result \in SessionResults(GatherTexts) :
          Both(InfoGathering(reqs[1], result), InfoGathering(reqs[2], result))

PairSynthRound ==
    /\ AllAt("synth")
    /\ \A r \in ReqIds : reqs[r].session.steps < MaxStepsValidation
    /\ \E tool \in validationTool : \E x \in ToolInputs(tool) :
          Both(IterativeValidationRound(reqs[1], tool, x, env),
               IterativeValidationRound(reqs[2], tool, x, env))

PairSynthDone ==
    /\ AllAt("synth")
    /\ \E result \in SessionResults(SynthTexts) :
          Both(IterativeValidation(reqs[1], result), IterativeValidation(reqs[2], result))

NextPair ==
    \/ PairStart
    \/ PairIntentDone
    \/ PairDecomposeDone
    \/ PairGatherRound
    \/ PairGatherDone
    \/ PairSynthRound
    \/ PairSynthDone

SpecPair == InitPair /\ [][NextPair]_vars

----------------------------------------------------------------------------
(* The server of index.ts with two requests in flight: their handlers        *)
(* interleave at the awaits, and a caller may go away while its request is   *)
(* awaiting a call.  The collaborators' answers are drawn from smaller sets. *)

ServerIntentOutputs == {"yes", "no"}

ServerDecompositions == {Resolved(<<"opA">>), Resolved(<<"opB">>), Resolved(<<>>)}

ServerGatherResults == {Resolved(<<"x">>), Resolved(<<>>)}

ServerSynthResults == {Resolved(<<"{", "o", "}">>), Resolved(<<"x">>)}

\* the tool calls of the sessions: a search, and the validator on two texts
ServerToolInputs(tool) ==
    CASE tool = "search_api_documentation" -> {"ok"}
      [] tool = "validate_openapi_schema"  -> {<<"{", "o", "}">>, <<"{", "k", "}">>}
      [] OTHER                             -> {}

InitServer ==
    /\ variant = "index"
    /\ env = EnvKeys
    /\ reqs = [r \in ReqIds |-> NewRequest("string")]

ServerStart(r) ==
    /\ reqs[r].pc = "start"
    /\ Step(r, HandlerStart(reqs[r]))

ServerIntentDone(r) ==
    /\ reqs[r].pc = "intent"
    /\ \E out \in ServerIntentOutputs : Step(r, IntentCheck(reqs[r], out))

ServerDecomposeDone(r) ==
    /\ reqs[r].pc = "decompose"
    /\ \E result \in ServerDecompositions : Step(r, Decompose(reqs[r], result))

ServerGatherRound(r) ==
    /\ reqs[r].pc = "gather"
    /\ reqs[r].session.steps < MaxStepsInfo
    /\ \E tool \in agentTools : \E x \in ServerToolInputs(tool) :
          Step(r, InfoGatheringRound(reqs[r], tool, x, env))

ServerGatherDone(r) ==
    /\ reqs[r].pc = "gather"
    /\ \E result \in ServerGatherResults : Step(r, InfoGathering(reqs[r], result))

ServerSynthRound(r) ==
    /\ reqs[r].pc = "synth"
    /\ reqs[r].session.steps < MaxStepsValidation
    /\ \E tool \in validationTool : \E x \in ServerToolInputs(tool) :
          Step(r, IterativeValidationRound(reqs[r], tool, x, env))

ServerSynthDone(r) ==
    /\ reqs[r].pc = "synth"
    /\ \E result \in ServerSynthResults :
          Step(r, IterativeValidation(reqs[r], result))

\* the caller goes away while the request awaits a call
Disconnect(r) ==
    /\ reqs[r].pc \in {"intent", "decompose", "gather", "synth"}
    /\ ~reqs[r].cancelled
    /\ Step(r, ClientGone(reqs[r]))

NextServer ==
    \E r \in ReqIds :
        \/ ServerStart(r)
        \/ ServerIntentDone(r)
        \/ ServerDecomposeDone(r)
        \/ ServerGatherRound(r)
        \/ ServerGatherDone(r)
        \/ ServerSynthRound(r)
        \/ ServerSynthDone(r)
        \/ Disconnect(r)

SpecServer == InitServer /\ [][NextServer]_vars

----------------------------------------------------------------------------
(* Reading a request *)

Done(r) == reqs[r].pc = "done"
Status(r) == reqs[r].response.status
ResponseBody(r) == reqs[r].response.body

\* the stages whose model call the request has made, in order
Stages(r) == [i \in 1..Len(reqs[r].calls) |-> reqs[r].calls[i].stage]

\* no tool has been called in the request
NoToolCall(r) == reqs[r].session = NewSession

\* the validator was called on t in the current session, and said valid
PassedValidation(r, t) ==
    /\ t \in reqs[r].session.validated
    /\ validateOpenAPISchema(t).isValid

----------------------------------------------------------------------------
(* C1 *)

\* C1: in index.ts, when a 200 response with generated_spec is sent, the
\* validator was called in the request's iterative validation session on the
\* text of that spec, its verdict for it was isValid = true, and the last
\* verdict of the session was isValid = true.
C1_SuccessOnlyAfterValidation ==
    \A r \in ReqIds :
        (variant = "index" /\ Done(r) /\ Status(r) = 200
            /\ "generated_spec" \in ResponseBody(r).keys)
        => /\ PassedValidation(r, reqs[r].generatedOASString)
           /\ reqs[r].session.lastVerdict.isValid

----------------------------------------------------------------------------
(* C2 *)

\* C2: in part_001, once the main agent has run, a 200 response is sent only
\* if the last validate_openapi_schema verdict was valid and was for the text of
\* the spec sent, the last evaluate_alignment score was >= 4.8 and the last
\* evaluate_veracity result was true; every other response is a 500 without a spec.
C2_SuccessOnlyAfterAllChecks ==
    \A r \in ReqIds :
        (variant = "part_001" /\ Done(r) /\ Stages(r) = <<"intent", "agent">>)
        => \/ /\ Status(r) = 200
              /\ reqs[r].session.lastVerdict.isValid
              /\ JSONparse(reqs[r].session.lastVerdict.arg) = ResponseBody(r).spec
              /\ reqs[r].session.lastScore >= AlignmentThreshold
              /\ reqs[r].session.lastVeracity = "true"
           \/ /\ Status(r) = 500
              /\ ResponseBody(r).spec = NoSpec

----------------------------------------------------------------------------
(* C3 *)

\* the final texts of the request's model sessions, as the handler holds them
RawOutputs(r) ==
    {Trim(reqs[r].infoAgentResult.text), Trim(reqs[r].validationAgentResult.text),
     Trim(reqs[r].agentResult.text)} \ {NullText}

\* C3: no response body, of any status, holds the evidence summary, the final
\* text of a model session, or JSON that did not pass validation: the details
\* field holds no such text, and a spec in the body is the parse of a text that
\* passed validation.
C3_NoIntermediateTextInBody ==
    \A r \in ReqIds :
        Done(r) =>
            LET body == ResponseBody(r)
            IN  /\ body.details.text \notin RawOutputs(r) \ {<<>>}
                /\ body.details.text \notin {reqs[r].gatheredInformation} \ {NullText}
                /\ body.details.text \notin {NullText, <<>>}
                      => PassedValidation(r, body.details.text)
                /\ body.spec # NoSpec =>
                      \E t \in reqs[r].session.validated :
                          validateOpenAPISchema(t).isValid /\ JSONparse(t) = body.spec

----------------------------------------------------------------------------
(* C4 *)

\* the value the handler compares with 'yes': intentResult.object.intent in
\* index.ts, intentResult.text.trim().toLowerCase() in part_001; "none" while
\* there is none
IntentValue(r) ==
    LET out == reqs[r].intentOutput
    IN  IF out \in {"none", "APICallError"} THEN "none"
        ELSE IF variant = "index"
        THEN (IF out \in {"yes", "no"} THEN out ELSE "none")
        ELSE (IF out = "Yes " THEN "yes" ELSE out)

\* C4: when the intent classification gives a value other than 'yes', the
\* response is 200 with body {} and the intent call is the only call of the
\* request: no decomposition, gathering, synthesis or agent call, no tool call.
C4_NonSpecIntentEndsEmpty ==
    \A r \in ReqIds :
        IntentValue(r) \notin {"none", "yes"}
        => /\ Done(r)
           /\ reqs[r].response = [status |-> 200, body |-> EmptyBody]
           /\ reqs[r].sent = 1
           /\ Stages(r) = <<"intent">>
           /\ NoToolCall(r)

\* a request of index.ts answered 'no', and one of part_001 would do as well
C4_Witness ==
    /\ variant = "index" /\ reqs[1].intentOutput = "no" /\ Done(1)

----------------------------------------------------------------------------
(* C5 *)

\* C5: when the classifier's output is anything but a clean 'yes' (also an
\* output outside the yes/no schema), the request is answered 200 with {} and
\* never with a 4xx or 5xx.
C5_MalformedIntentEndsEmpty ==
    \A r \in ReqIds :
        (/\ reqs[r].intentOutput \notin {"none", "APICallError"}
         /\ reqs[r].intentOutput \notin {"yes", "Yes "})
        => /\ Done(r)
           /\ reqs[r].response = [status |-> 200, body |-> EmptyBody]

----------------------------------------------------------------------------
(* C6 *)

\* C6: when the decomposition returns an empty or missing operations list, the
\* response is 400 with {error} only, the request made exactly two model calls
\* (intent, then decomposition: no second decomposition) and no tool call.
C6_NoOperationsIsCallerError ==
    \A r \in ReqIds :
        reqs[r].requestedOperations \in {<<>>, Undefined}
        => /\ Done(r)
           /\ Status(r) = 400
           /\ ResponseBody(r).keys = {"error"}
           /\ ResponseBody(r) = ErrorBody(ResponseBody(r).error)
           /\ reqs[r].sent = 1
           /\ Stages(r) = <<"intent", "decompose">>
           /\ NoToolCall(r)

C6_Witness ==
    /\ reqs[1].requestedOperations = <<>> /\ Done(1) /\ Status(1) = 400

----------------------------------------------------------------------------
(* C8 *)

WhiteSpaceOnly(t) == t # NullText /\ \A i \in 1..Len(t) : t[i] = " "

\* C8: when the information gathering session's final text is empty or white
\* space only, the response is a 500 whose details start with 'Information
\* Gathering Failed:', no synthesis call is made and the gathering call was
\* made exactly once.
C8_EmptyEvidenceFailsOnce ==
    \A r \in ReqIds :
        WhiteSpaceOnly(reqs[r].infoAgentResult.text)
        => /\ Done(r)
           /\ Status(r) = 500
           /\ ResponseBody(r).keys = {"error", "details"}
           /\ ResponseBody(r).details.prefix = "Information Gathering Failed: "
           /\ reqs[r].sent = 1
           /\ Stages(r) = <<"intent", "decompose", "gather">>

C8_Witness ==
    /\ reqs[1].infoAgentResult.text = <<" ">> /\ Done(1) /\ Status(1) = 500
    /\ reqs[1].session.steps > 0

----------------------------------------------------------------------------
(* C9 *)

InvalidQuery(r) == reqs[r].query # "string"

\* 200 with the spec: { generated_spec } in index.ts, the bare object in part_001
IsSuccess(r) ==
    /\ Status(r) = 200
    /\ ResponseBody(r).spec.type = "object"
    /\ \/ variant = "index" /\ ResponseBody(r).keys = {"generated_spec"}
       \/ variant = "part_001" /\ ResponseBody(r) = BareBody(ResponseBody(r).spec)

\* 200 with {}
IsEmptySuccess(r) == reqs[r].response = [status |-> 200, body |-> EmptyBody]

\* a 4xx with { error } only, for a bad query or an undecomposable one
IsCallerError(r) ==
    /\ Status(r) = 400
    /\ ResponseBody(r) = ErrorBody(ResponseBody(r).error)
    /\ InvalidQuery(r) \/ reqs[r].requestedOperations \in {<<>>, Undefined}

\* a 5xx with error and details
IsProcessingFailure(r) ==
    /\ Status(r) = 500
    /\ ResponseBody(r).keys = {"error", "details"}
    /\ ResponseBody(r).error # ""
    /\ ResponseBody(r).details # NoDetails
    /\ ResponseBody(r).spec = NoSpec

\* a 5xx with { error } only and one of the fixed messages
IsGenericFailure(r) ==
    /\ Status(r) = 500
    /\ ResponseBody(r) = ErrorBody(ResponseBody(r).error)
    /\ ResponseBody(r).error \in
          {"Internal Server Error during API processing.",
           "Internal Server Error during OAS generation.",
           "Server configuration error."}

\* 200 with the value parsed from the main agent's final text, whatever it is
IsBareValue(r) ==
    /\ variant = "part_001" /\ Status(r) = 200
    /\ ResponseBody(r).spec # NoSpec
    /\ ResponseBody(r) = BareBody(ResponseBody(r).spec)

----------------------------------------------------------------------------
(* C10 *)

\* C10: a request without a query, with an empty string or with a query that is
\* no string is answered 400 with the message below, and makes no model call and
\* no tool call; in part_001 also when GEMINI_API_KEY is not set.
C10_BadQueryIsCallerError ==
    \A r \in ReqIds :
        (reqs[r].pc \notin {"idle", "start"}
            /\ reqs[r].query \in {"undefined", "emptyString", "zero", "number"})
        => /\ Done(r)
           /\ reqs[r].response =
                 [status |-> 400,
                  body |-> ErrorBody("Missing or invalid 'query' in request body")]
           /\ reqs[r].sent = 1
           /\ reqs[r].calls = <<>>
           /\ NoToolCall(r)

C10_Witness ==
    /\ variant = "part_001" /\ "GEMINI_API_KEY" \notin env
    /\ reqs[1].query = "emptyString" /\ Done(1) /\ Status(1) = 400

----------------------------------------------------------------------------
(* C7 *)

\* the operations a request's prompts and response name
OperationsNamed(r) ==
    ({reqs[r].calls[i].op : i \in 1..Len(reqs[r].calls)}
        \cup {ResponseBody(r).operation, reqs[r].processingError.operation}) \ {NoOp}

\* operations[0], when the decomposition named an operation
FirstOperation(r) ==
    IF reqs[r].requestedOperations \in {Unassigned, Undefined, <<>>} THEN {}
    ELSE {reqs[r].requestedOperations[1]}

\* C7: two requests whose operations lists have the same first element and
\* whose collaborators answer alike make the same calls with the same prompts
\* and get the same response, at every step: they differ in nothing but the
\* lists.  The only operation a prompt or the response names is operations[0].
C7_OnlyFirstOperationUsed ==
    /\ [reqs[1] EXCEPT !.requestedOperations = <<>>]
          = [reqs[2] EXCEPT !.requestedOperations = <<>>]
    /\ \A r \in ReqIds : OperationsNamed(r) \subseteq FirstOperation(r)

\* both answered, with a failure that names the operation, the second list
\* going on with another operation
C7_Witness ==
    /\ Done(1) /\ Done(2)
    /\ Len(reqs[1].requestedOperations) = 1
    /\ Len(reqs[2].requestedOperations) = 2
    /\ reqs[2].requestedOperations[2] # reqs[2].requestedOperations[1]
    /\ ResponseBody(2).operation = reqs[2].requestedOperations[1]

----------------------------------------------------------------------------
(* C11 *)

\* an exception that no handler of a stage covers was thrown in the request: by
\* the intent call or the decomposition call of index.ts, by the intent call,
\* the main agent's session or one of its tools in part_001
ThrewOutsideStage(r) ==
    \/ /\ variant = "index" /\ reqs[r].intentOutput # "none"
       /\ generateObjectIntent(reqs[r].intentOutput).throws
    \/ /\ variant = "index" /\ Done(r)
       /\ Stages(r) = <<"intent", "decompose">>
       /\ reqs[r].requestedOperations = Unassigned
    \/ /\ variant = "part_001"
       /\ reqs[r].intentOutput = "APICallError" \/ reqs[r].agentResult.throws

\* C11: a request with a valid query in which the intent call, the
\* decomposition call or a step outside Steps 3a and 3b throws is answered, by
\* the handler's outer catch, 500 with { error } only and a fixed message that
\* holds nothing of the exception; a response is sent once at most, and exactly
\* once when the handler has ended.
C11_UnhandledExceptionIsGeneric ==
    \A r \in ReqIds :
        /\ reqs[r].sent <= 1
        /\ Done(r) => reqs[r].sent = 1
        /\ (reqs[r].query = "string" /\ ThrewOutsideStage(r))
           => /\ Done(r)
              /\ Status(r) = 500
              /\ ResponseBody(r) \in
                    {ErrorBody("Internal Server Error during API processing."),
                     ErrorBody("Internal Server Error during OAS generation.")}

\* a tool of the main agent threw, which rejected the agent's session
C11_Witness ==
    /\ variant = "part_001" /\ Done(1) /\ reqs[1].session.steps > 0
    /\ reqs[1].agentResult.throws /\ reqs[1].agentResult.msg # "APICallError"

----------------------------------------------------------------------------
(* C12 *)

\* the messages of the code that hold the name of an environment variable
NamesVariable(msg) ==
    msg \in {"SERPAPI_API_KEY environment variable is not set.",
             "FIRECRAWL_API_KEY environment variable is not set.",
             "Configuration error: FIRECRAWL_API_KEY environment variable is not set.",
             "GEMINI_API_KEY environment variable is not set for alignment evaluation.",
             "GEMINI_API_KEY environment variable is not set for veracity evaluation."}

\* the request met a credential that is not set: a tool of one of its sessions
\* threw for its missing key, or part_001 found GEMINI_API_KEY missing
MissingCredential(r) ==
    \/ reqs[r].infoAgentResult.throws /\ NamesVariable(reqs[r].infoAgentResult.msg)
    \/ reqs[r].validationAgentResult.throws /\ NamesVariable(reqs[r].validationAgentResult.msg)
    \/ reqs[r].agentResult.throws /\ NamesVariable(reqs[r].agentResult.msg)
    \/ /\ variant = "part_001" /\ "GEMINI_API_KEY" \notin env
       /\ reqs[r].query = "string" /\ reqs[r].pc \notin {"idle", "start"}

\* C12: a request that met a missing credential (SERPAPI_API_KEY,
\* FIRECRAWL_API_KEY or GEMINI_API_KEY not set) is answered with a 5xx whose
\* error and details do not hold the name of the variable.
C12_MissingCredentialNotNamed ==
    \A r \in ReqIds :
        MissingCredential(r)
        => /\ Done(r)
           /\ Status(r) >= 500
           /\ ~NamesVariable(ResponseBody(r).error)
           /\ ~NamesVariable(ResponseBody(r).details.msg)

----------------------------------------------------------------------------
(* C13 *)

\* the index of the "}" that closes the block open at depth levels, from i on;
\* 0 when there is none
RECURSIVE MatchingClose(_, _, _)
MatchingClose(t, i, depth) ==
    IF i > Len(t) THEN 0
    ELSE IF t[i] = "{" THEN MatchingClose(t, i + 1, depth + 1)
    ELSE IF t[i] = "}"
    THEN (IF depth = 1 THEN i ELSE MatchingClose(t, i + 1, depth - 1))
    ELSE MatchingClose(t, i + 1, depth)

\* the first top-level brace-balanced block of t: from the first "{" to the "}"
\* that matches it
FirstBalancedBlock(t) ==
    LET opens == {i \in 1..Len(t) : t[i] = "{"}
        first == CHOOSE i \in opens : \A j \in opens : i <= j
        close == MatchingClose(t, first, 0)
    IN  IF opens = {} THEN NullText
        ELSE IF close = 0 THEN NullText
        ELSE SubSeq(t, first, close)

\* the iterative validation session of the request has given its final text
SynthesisEnded(r) ==
    /\ variant = "index" /\ Done(r)
    /\ reqs[r].validationAgentResult # Pending
    /\ ~reqs[r].validationAgentResult.throws

\* C13: what the handler extracts from the final text of the iterative
\* validation session, and parses, is the first top-level brace-balanced block of
\* that text: when the block is a non-empty object it is the spec returned, when
\* it does not parse it is the text the failure quotes.
C13_FirstBalancedBlockExtracted ==
    \A r \in ReqIds :
        SynthesisEnded(r) =>
            LET block == FirstBalancedBlock(Trim(reqs[r].validationAgentResult.text))
                value == JSONparse(block)
            IN  block # NullText =>
                    IF value.type = "object" /\ value.keys # {}
                    THEN /\ Status(r) = 200
                         /\ reqs[r].generatedOASString = block
                         /\ ResponseBody(r).spec = value
                    ELSE IF value = JsonError
                    THEN /\ Status(r) = 500
                         /\ ResponseBody(r).details.text = block
                    ELSE /\ Status(r) = 500
                         /\ ResponseBody(r).details.text = NullText

----------------------------------------------------------------------------
(* C14 *)

\* t holds a "{" with a "}" after it
HasBlock(t) ==
    \E i \in 1..Len(t) : \E j \in 1..Len(t) : i < j /\ t[i] = "{" /\ t[j] = "}"

\* the final text of the iterative validation session gives no spec: it holds
\* no {...} block, or the block the handler extracts does not parse, or it
\* parses to the empty object
NoSpecInOutput(t) ==
    \/ ~HasBlock(Trim(t))
    \/ JSONparse(RegexMatch(Trim(t))) = JsonError
    \/ JSONparse(RegexMatch(Trim(t))) = JsonObject({})

\* a processing failure of Step 3b: 500, the error naming the operation, details
\* that start with the stage's prefix, and no generated_spec
IsSynthesisFailure(r) ==
    /\ Status(r) = 500
    /\ ResponseBody(r).keys = {"error", "details"}
    /\ ResponseBody(r).error = "Failed to generate OpenAPI specification for operation: "
    /\ ResponseBody(r).operation = reqs[r].operation
    /\ reqs[r].operation \in Ops
    /\ ResponseBody(r).details.prefix = "Iterative Generation & Validation Failed: "
    /\ ResponseBody(r).details.msg # ""
    /\ ResponseBody(r).spec = NoSpec
    /\ reqs[r].generatedOASString = NullText

----------------------------------------------------------------------------
(* C15 *)

\* the validator was called in the request's iterative validation session and
\* answered isValid = false on every call
AlwaysInvalid(r) ==
    /\ variant = "index"
    /\ "synth" \in {reqs[r].calls[i].stage : i \in 1..Len(reqs[r].calls)}
    /\ reqs[r].session.lastVerdict # NoVerdict
    /\ reqs[r].session.validated = {}

\* C15: the iterative validation session never makes more than 10 rounds, and
\* when the validator answered isValid = false on every call the request ends
\* with the failure of the stage and never with a success, however many of the
\* 10 rounds the session has used.  (The claim's "after exactly 10 rounds" is
\* left out: a session that stops early with a failure is not held against it.)
C15_AlwaysInvalidFailsAtBudget ==
    \A r \in ReqIds :
        /\ (variant = "index" /\ reqs[r].pc = "synth")
           => reqs[r].session.steps <= MaxStepsValidation
        /\ (Done(r) /\ AlwaysInvalid(r))
           => /\ IsSynthesisFailure(r)
              /\ reqs[r].session.steps <= MaxStepsValidation

----------------------------------------------------------------------------
(* C16 *)

\* C16: every session that is given tools has an explicit cap on its rounds and
\* keeps to it: the information gathering session makes 5 rounds at most, the
\* iterative validation session 10, the main agent of part_001 10 round trips
\* (its eleventh generation's tool calls are the last it can make), and the
\* session evaluateVeracity runs is given a cap as well.
C16_EverySessionCapped ==
    \A r \in ReqIds :
        /\ reqs[r].pc = "gather"
              => reqs[r].session.steps <= generateTextOptions("gather").rounds
        /\ reqs[r].pc = "synth"
              => reqs[r].session.steps <= generateTextOptions("synth").rounds
        /\ reqs[r].pc = "agent"
              => reqs[r].session.steps <= generateTextOptions("agent").rounds + 1
        /\ reqs[r].session.veracityOut # "none"
              => /\ generateTextOptions("veracity").tools # {}
                 /\ generateTextOptions("veracity").cap # "none"

----------------------------------------------------------------------------
(* C17 *)

\* the last result of each of the three checks of the main agent's session is
\* a pass: schema valid, alignment >= 4.8, veracity true
AllChecksPassed(r) ==
    /\ reqs[r].session.lastVerdict.isValid
    /\ reqs[r].session.lastScore >= AlignmentThreshold
    /\ reqs[r].session.lastVeracity = "true"

\* C17: in part_001 the main agent's session has no fifth failing check, and a
\* request whose session has seen 4 checks fail without all three passing in the
\* end is answered 500 with the error 'Failed to generate OpenAPI specification
\* after multiple attempts.' and details that start with ERROR:, not with a spec.
C17_FourAttemptsThenError ==
    \A r \in ReqIds :
        variant = "part_001" =>
            /\ reqs[r].session.failedChecks <= MaxAttempts
            /\ (/\ Done(r) /\ reqs[r].agentResult # Pending /\ ~reqs[r].agentResult.throws
                /\ reqs[r].session.failedChecks >= MaxAttempts
                /\ ~AllChecksPassed(r))
               => /\ Status(r) = 500
                  /\ ResponseBody(r).error =
                        "Failed to generate OpenAPI specification after multiple attempts."
                  /\ StartsWithError(ResponseBody(r).details.text)
                  /\ ResponseBody(r).spec = NoSpec

----------------------------------------------------------------------------
(* C18 *)

\* the evaluator's output is one number and nothing else
ExactlyOneNumber(out) ==
    Len(Trim(out)) = 1 /\ Head(Trim(out)) \in NumberLiterals

\* the session of the request was rejected by evaluateAlignment's error
AlignmentThrew(r) ==
    \E result \in {reqs[r].infoAgentResult, reqs[r].agentResult} :
        /\ result.throws
        /\ result.msg \in
              {"Alignment evaluation failed: APICallError",
               "Alignment evaluation failed: Alignment evaluator returned an invalid score: "}

\* C18: evaluateAlignment, reading the evaluator's output, returns a score only
\* when the output is exactly one number in [0.0, 5.0], and then that number;
\* on any other output it throws an 'Alignment evaluation failed' error and
\* gives the session no score.
C18_AlignmentScoreOrThrow ==
    \A r \in ReqIds :
        (reqs[r].session.alignmentOut # NullText /\ "GEMINI_API_KEY" \in env)
        => LET out == reqs[r].session.alignmentOut
           IN  IF ExactlyOneNumber(out) /\ Tenths(Head(Trim(out))) \in 0..50
               THEN /\ ~AlignmentThrew(r)
                    /\ reqs[r].session.lastScore = Tenths(Head(Trim(out)))
               ELSE AlignmentThrew(r)

----------------------------------------------------------------------------
(* C19 *)

\* the session of the request was rejected by evaluateVeracity's error
VeracityThrew(r) ==
    \E result \in {reqs[r].infoAgentResult, reqs[r].agentResult} :
        /\ result.throws
        /\ result.msg \in
              {"Veracity evaluation failed: APICallError",
               "Veracity evaluation failed: Veracity evaluator returned an invalid response: "}

\* the last evaluate_veracity call of the session returned that verdict
VeracityReturned(r, verdict) ==
    ~VeracityThrew(r) /\ reqs[r].session.lastVeracity = verdict

\* C19 as claimed: evaluateVeracity returns is_accurate = true only when the
\* evaluator's output is exactly "true", false only when it is exactly "false",
\* and throws a 'Veracity evaluation failed' error on any other output.
C19_ExactTrueOrFalse ==
    \A r \in ReqIds :
        (reqs[r].session.veracityOut # "none" /\ "GEMINI_API_KEY" \in env)
        => LET out == reqs[r].session.veracityOut
           IN  IF out = "true" THEN VeracityReturned(r, "true")
               ELSE IF out = "false" THEN VeracityReturned(r, "false")
               ELSE VeracityThrew(r)

\* C19 amended: the output is compared after trim() and toLowerCase(): the
\* verdict is true when that gives "true", false when it gives "false", and any
\* other output makes evaluateVeracity throw a 'Veracity evaluation failed' error.
C19_TrueOrFalseIgnoringCase ==
    \A r \in ReqIds :
        (reqs[r].session.veracityOut # "none" /\ "GEMINI_API_KEY" \in env)
        => LET result == TrimToLowerCase(reqs[r].session.veracityOut)
           IN  IF result = "true" THEN VeracityReturned(r, "true")
               ELSE IF result = "false" THEN VeracityReturned(r, "false")
               ELSE VeracityThrew(r)

\* the evaluator answered " TRUE", and the verdict was true
C19_Witness ==
    /\ "GEMINI_API_KEY" \in env
    /\ reqs[1].session.veracityOut = " TRUE" /\ VeracityReturned(1, "true")

----------------------------------------------------------------------------
(* C20 *)

\* t is JSON: an object, or a value that is not an object
IsJson(t) == JSONparse(t) # JsonError

\* t is JSON and a valid OpenAPI document
IsOpenAPI(t) == JSONparse(t).type = "object" /\ SwaggerParserValidate(JSONparse(t))

\* C20: the validator's answer tells text that is not JSON from JSON that is
\* not a valid OpenAPI document: its error is 'Input string is not valid JSON.'
\* exactly when the input is not JSON, and starts with 'OAS validation failed:'
\* exactly when the input is JSON (an object or not) that is no valid document.
C20_NotJsonDistinctFromInvalid ==
    \A r \in ReqIds :
        reqs[r].session.lastVerdict # NoVerdict
        => LET verdict == reqs[r].session.lastVerdict
           IN  /\ verdict.error = "Input string is not valid JSON."
                     <=> ~IsJson(verdict.arg)
               /\ verdict.error = "OAS validation failed: "
                     <=> (IsJson(verdict.arg) /\ ~IsOpenAPI(verdict.arg))
               /\ verdict.isValid <=> IsOpenAPI(verdict.arg)

----------------------------------------------------------------------------
(* C21 *)

Verdict(r) == reqs[r].session.lastVerdict

----------------------------------------------------------------------------
(* C22 *)

\* C22: once the caller of a request has gone, the request starts no
\* further stage call and no further tool round
C22_NothingStartedAfterDisconnect ==
    [][\A r \in ReqIds :
          reqs[r].cancelled =>
              /\ reqs'[r].calls = reqs[r].calls
              /\ reqs'[r].session.steps = reqs[r].session.steps]_vars

----------------------------------------------------------------------------
(* C23 *)

\* the answer decomposition gave a finished request
DecompositionAnswer(s) ==
    IF s.requestedOperations = Unassigned THEN Rejected("decomposition failed")
    ELSE Resolved(s.requestedOperations)

\* the handler of index.ts run on its own on the query of a finished request,
\* with the answers the request's calls got
RunAlone(s) ==
    LET s0 == HandlerStart(NewRequest(s.query))
        s1 == IF s0.pc = "done" THEN s0 ELSE IntentCheck(s0, s.intentOutput)
        s2 == IF s1.pc = "done" THEN s1 ELSE Decompose(s1, DecompositionAnswer(s))
        s3 == IF s2.pc = "done" THEN s2 ELSE InfoGathering(s2, s.infoAgentResult)
        s4 == IF s3.pc = "done" THEN s3
              ELSE IterativeValidation(s3, s.validationAgentResult)
    IN  s4

\* C23: however the handlers of concurrent requests interleave, a finished
\* request has the response, and the operation, gatheredInformation,
\* generatedOASString and processingError, it has when it runs alone
C23_ResponseAsWhenAlone ==
    \A r \in ReqIds :
        Done(r) =>
            LET alone == RunAlone(reqs[r])
            IN  /\ reqs[r].response = alone.response
                /\ reqs[r].sent = alone.sent
                /\ reqs[r].operation = alone.operation
                /\ reqs[r].gatheredInformation = alone.gatheredInformation
                /\ reqs[r].generatedOASString = alone.generatedOASString
                /\ reqs[r].processingError = alone.processingError
                /\ reqs[r].calls = alone.calls

\* two requests for different operations have both finished, one with a
\* specification and one with a failure that names its operation
C23_Witness ==
    /\ Done(1) /\ Done(2)
    /\ reqs[1].operation = "opA" /\ reqs[2].operation = "opB"
    /\ Status(1) = 200
    /\ Status(2) = 500 /\ reqs[2].processingError # NoError

----------------------------------------------------------------------------
(* C24 *)

\* what the page fetch is to give for a scrape result: its markdown, else its
\* HTML, and an exception when it has neither or the scrape failed
MarkdownElseHtml(scrape) ==
    IF scrape.throws \/ scrape.success = "false" THEN "throws"
    ELSE IF scrape.markdown # "absent" THEN scrape.markdown
    ELSE IF scrape.html # "absent" THEN scrape.html
    ELSE "throws"

\* C24: with its key set, readWebpageContent returns the markdown of the
\* scrape result when it has one, else its raw HTML, and throws when it has
\* neither or the scrape failed
C24_MarkdownElseHtmlElseThrow ==
    \A r \in ReqIds :
        LET page == reqs[r].session.page
        IN  (page # NoPage /\ "FIRECRAWL_API_KEY" \in env)
                => page.value = MarkdownElseHtml(page.scrape)

----------------------------------------------------------------------------
(* C25 *)

\* the repair session ended with a text whose extracted block is the empty
\* object
EmptyObjectSynthesised(r) ==
    /\ SynthesisEnded(r)
    /\ ~reqs[r].validationAgentResult.throws
    /\ JSONparse(RegexMatch(Trim(reqs[r].validationAgentResult.text))) = JsonObject({})

\* 500 with the error that names the operation
FailedToGenerate(r) ==
    /\ Status(r) = 500
    /\ ResponseBody(r).keys = {"error", "details"}
    /\ ResponseBody(r).error = "Failed to generate OpenAPI specification for operation: "
    /\ ResponseBody(r).operation = reqs[r].operation
    /\ ResponseBody(r).operation \in Ops

\* C25: an empty object {} from synthesis gives a 500 with the error
\* 'Failed to generate OpenAPI specification for operation: <operation>' and
\* details that begin with 'JSON Generation Failed:'
C25_EmptyObjectJsonGenerationFailed ==
    \A r \in ReqIds :
        EmptyObjectSynthesised(r)
        => /\ FailedToGenerate(r)
           /\ ResponseBody(r).details.prefix = "JSON Generation Failed: "

----------------------------------------------------------------------------
(* C26 *)

\* the stages in the order the handler calls them
StageOrder ==
    IF variant = "index" THEN <<"intent", "decompose", "gather", "synth">>
    ELSE <<"intent", "agent">>

\* the stage of the request's k-th call gave what the next stage needs
StageSucceeded(r, k) ==
    CASE StageOrder[k] = "intent" ->
            /\ reqs[r].intentOutput # "none"
            /\ IF variant = "index"
               THEN generateObjectIntent(reqs[r].intentOutput) = Resolved("yes")
               ELSE TrimToLowerCase(reqs[r].intentOutput) = "yes"
      [] StageOrder[k] = "decompose" ->
            /\ reqs[r].requestedOperations \notin {Unassigned, Undefined, <<>>}
            /\ reqs[r].operation = reqs[r].requestedOperations[1]
      [] StageOrder[k] = "gather" ->
            /\ ~reqs[r].infoAgentResult.throws
            /\ reqs[r].infoAgentResult # Pending
            /\ reqs[r].gatheredInformation \notin {NullText, <<>>}
      [] OTHER -> TRUE

\* C26: the calls of a request are a prefix of the fixed order of the stages,
\* each stage called at most once and only when every stage before it has
\* succeeded; a request whose stage failed has no call after that stage, and
\* the result is assembled and sent at most once
C26_StagesOnceInOrder ==
    \A r \in ReqIds :
        LET n == Len(reqs[r].calls)
        IN  /\ n <= Len(StageOrder)
            /\ \A i \in 1..n : Stages(r)[i] = StageOrder[i]
            /\ \A i \in 1..n : \A k \in 1..(i - 1) : StageSucceeded(r, k)
            /\ reqs[r].processingError # NoError => Done(r)
            /\ reqs[r].sent <= 1
            /\ reqs[r].sent = 1 <=> Done(r)

\* a request whose gathering failed was answered after three calls
C26_Witness ==
    /\ variant = "index" /\ Done(1)
    /\ Stages(1) = <<"intent", "decompose", "gather">>
    /\ reqs[1].processingError # NoError
    /\ Status(1) = 500

----------------------------------------------------------------------------
(* C27 *)

\* the stage of a finished request whose collaborator threw, or "none"
StageThatThrew(r) ==
    IF ~Done(r) \/ reqs[r].calls = <<>> THEN "none"
    ELSE LET last == Stages(r)[Len(reqs[r].calls)]
         IN  CASE last = "intent" ->
                     IF \/ variant = "index" /\ generateObjectIntent(reqs[r].intentOutput).throws
                        \/ variant = "part_001" /\ reqs[r].intentOutput = "APICallError"
                     THEN "intent" ELSE "none"
               [] last = "decompose" ->
                     IF reqs[r].requestedOperations = Unassigned THEN "decompose" ELSE "none"
               [] last = "gather" ->
                     IF reqs[r].infoAgentResult.throws THEN "gather" ELSE "none"
               [] last = "synth" ->
                     IF reqs[r].validationAgentResult.throws THEN "synth" ELSE "none"
               [] OTHER ->
                     IF reqs[r].agentResult.throws THEN "agent" ELSE "none"

\* C27: an exception of a collaborator in any stage is caught by that stage and
\* recorded as the stage's failure, which the response reports with details
\* that carry the stage's prefix and the reason
C27_ExceptionRecordedByItsStage ==
    \A r \in ReqIds :
        StageThatThrew(r) # "none"
        => /\ Status(r) = 500
           /\ reqs[r].processingError # NoError
           /\ ResponseBody(r).keys = {"error", "details"}
           /\ ResponseBody(r).details = reqs[r].processingError.error
           /\ ResponseBody(r).details.prefix # ""
           /\ ResponseBody(r).details.msg # ""

----------------------------------------------------------------------------
(* C28 *)

\* the session of the stage is the request's current or last one
InStage(r, stage) ==
    /\ reqs[r].calls # <<>>
    /\ Stages(r)[Len(reqs[r].calls)] = stage
    /\ reqs[r].pc \in {stage, "done"}

\* the session has called neither the validator nor an evaluator
NoCheckCalled(session) ==
    /\ session.lastVerdict = NoVerdict /\ session.validated = {}
    /\ session.lastScore = -1 /\ session.alignmentOut = NullText
    /\ session.lastVeracity = "none" /\ session.veracityOut = "none"

\* C28: the evidence gathering session calls only the search and the page
\* fetch: it never calls the validator, the alignment evaluator or the veracity
\* evaluator
C28_GatheringOnlySearchAndFetch ==
    \A r \in ReqIds : InStage(r, "gather") => NoCheckCalled(reqs[r].session)

----------------------------------------------------------------------------
(* C29 *)

\* the session has called neither the page fetch nor an evaluator
NoFetchOrEvaluation(session) ==
    /\ session.page = NoPage
    /\ session.lastScore = -1 /\ session.alignmentOut = NullText
    /\ session.lastVeracity = "none" /\ session.veracityOut = "none"

\* C29: from the end of gathering to the response, every tool round of the
\* repair session is a call of validate_openapi_schema: the session calls no
\* search, no page fetch and no evaluator
C29_RepairOnlyValidates ==
    [][\A r \in ReqIds :
          /\ (reqs[r].pc = "synth" /\ reqs'[r].pc = "synth" /\ reqs'[r] # reqs[r])
                 => \E x \in ToolInputs("validate_openapi_schema") :
                       reqs'[r] = IterativeValidationRound(
                                      reqs[r], "validate_openapi_schema", x, env)
          /\ (variant = "index" /\ InStage(r, "synth")')
                 => NoFetchOrEvaluation(reqs'[r].session)]_vars

\* a repair session has made three rounds, the validator rejecting a text and
\* accepting another
C29_Witness ==
    /\ reqs[1].pc = "synth"
    /\ reqs[1].session.steps = 3
    /\ reqs[1].session.validated # {}
    /\ ~reqs[1].session.lastVerdict.isValid
    /\ reqs[1].session.lastVerdict # NoVerdict

----------------------------------------------------------------------------
(* C30 *)

\* the request reached Step 3 and has been answered
ReachedStep3(r) ==
    /\ variant = "index" /\ Done(r)
    /\ Len(reqs[r].calls) >= 3 /\ Stages(r)[3] = "gather"

\* C30: a request that reached Step 3 comes to Step 4 with exactly one of
\* generatedOASString and processingError set, and is answered with the spec
\* in the first case and with the recorded failure in the second; the fallback
\* 'An unexpected error occurred during processing.' is never sent
C30_ExactlyOneOutcome ==
    \A r \in ReqIds :
        /\ ReachedStep3(r)
           => /\ (reqs[r].generatedOASString # NullText)
                     # (reqs[r].processingError # NoError)
              /\ reqs[r].generatedOASString # NullText
                     => /\ Status(r) = 200
                        /\ ResponseBody(r).spec = JSONparse(reqs[r].generatedOASString)
              /\ reqs[r].processingError # NoError
                     => /\ Status(r) = 500
                        /\ ResponseBody(r).details = reqs[r].processingError.error
        /\ ResponseBody(r).error # "An unexpected error occurred during processing."

\* a request whose repair session failed was answered with the failure the
\* session recorded, and has no generated text
C30_Witness ==
    /\ ReachedStep3(1) /\ InStage(1, "synth")
    /\ reqs[1].processingError # NoError
    /\ reqs[1].generatedOASString = NullText
    /\ Status(1) = 500

----------------------------------------------------------------------------
(* C31 *)

\* C31: when every outbound call settles, a request that was received is
\* eventually answered, and answered once: at no time has a request been sent
\* two responses, and a handler that has ended has sent one
C31_EveryRequestAnsweredOnce ==
    /\ \A r \in ReqIds :
          (reqs[r].pc = "start") ~> (Done(r) /\ reqs[r].sent = 1)
    /\ [](\A r \in ReqIds : /\ reqs[r].sent <= 1
                             /\ Done(r) => reqs[r].sent = 1)

\* a request was answered after its repair session used its whole budget of
\* rounds
C31_Witness ==
    /\ Done(1) /\ reqs[1].sent = 1
    /\ InStage(1, "synth")
    /\ reqs[1].session.steps = MaxStepsValidation

----------------------------------------------------------------------------
(* C32 *)

\* the block Step 3b extracts from the final text of the request's repair
\* session
ExtractedBlock(r) == RegexMatch(Trim(reqs[r].validationAgentResult.text))

\* C32: the generated_spec of a success response is the value that parsing the
\* block extracted from the repair session's final text gives, the value the
\* non-empty check passed: an object with at least one key; the string Step 4
\* parses is that block, so its parse does not throw and no request whose
\* repair session gave a text is answered by the outer catch
C32_SpecIsTheParsedBlock ==
    \A r \in ReqIds :
        /\ (variant = "index" /\ Done(r) /\ Status(r) = 200
                /\ ResponseBody(r).keys = {"generated_spec"})
           => /\ SynthesisEnded(r)
              /\ ExtractedBlock(r) # NullText
              /\ reqs[r].generatedOASString = ExtractedBlock(r)
              /\ JSONparse(ExtractedBlock(r)) # JsonError
              /\ ResponseBody(r).spec = JSONparse(ExtractedBlock(r))
              /\ ResponseBody(r).spec.type = "object"
              /\ ResponseBody(r).spec.keys # {}
        /\ (variant = "index" /\ reqs[r].generatedOASString # NullText)
           => JSONparse(reqs[r].generatedOASString) # JsonError
        /\ SynthesisEnded(r)
           => ResponseBody(r).error # "Internal Server Error during API processing."

\* a success whose spec was extracted from a final text that holds more than
\* the block
C32_Witness ==
    /\ variant = "index" /\ Done(1) /\ Status(1) = 200
    /\ reqs[1].validationAgentResult.text = <<"x", "{", "o", "}">>
    /\ reqs[1].generatedOASString = <<"{", "o", "}">>
    /\ ResponseBody(1).spec = JsonObject({"o"})

----------------------------------------------------------------------------
(* C33 *)

\* C33: validateOpenAPISchema throws for no input: a round of the repair
\* session, whose only tool it is, never rejects the session but leaves it
\* with a verdict; and in every verdict any session got, isValid is true
\* exactly when error is null
C33_ValidatorAlwaysReturnsVerdict ==
    [][\A r \in ReqIds :
          LET verdict == reqs'[r].session.lastVerdict
          IN  /\ (reqs[r].pc = "synth"
                    /\ reqs'[r].session.steps = reqs[r].session.steps + 1)
                 => /\ reqs'[r].pc = "synth"
                    /\ verdict # NoVerdict
              /\ verdict # NoVerdict
                 => /\ verdict.error # "none"
                    /\ verdict.isValid <=> verdict.error = "null"]_vars

\* a repair session called the validator twice, the second time on a text
\* that is not JSON, and got a verdict each time, neither of them valid
C33_Witness ==
    /\ reqs[1].pc = "synth"
    /\ reqs[1].session.steps = 2
    /\ reqs[1].session.validated = {}
    /\ reqs[1].session.lastVerdict =
          [arg |-> <<"x">>, isValid |-> FALSE, error |-> "Input string is not valid JSON."]

====
